---- MODULE Spec2Model ----
(***************************************************************************)
(* A model of the core of webidl2.js (TypeScript port): the tokeniser, the *)
(* memoised dictionary analyses of the validator, Interface.validate with  *)
(* its two autofixes, and Operation.validate.                              *)
(*                                                                         *)
(* Source text is a sequence of one-character strings.  Positions are      *)
(* 0-based as in the source; At(s, p) is s.charAt(p).                      *)
(***************************************************************************)
EXTENDS Integers, Sequences, FiniteSets, TLC

VARIABLES
  \* ---- tokenise() locals (tokeniser.ts)
  str,            \* the input of tokenise
  lastCharIndex,  \* cursor into str
  trivia,         \* pending trivia buffer
  line,           \* line counter
  index,          \* index of the next token
  tokens,         \* token vector built so far
  tpc,            \* "loop" | "done" (returned) | "error" (threw)
  \* ---- the definition index and the two memoised analyses (validators/helpers.ts)
  unique,         \* defs.unique: name -> definition
  cache,          \* defs.cache: the two memoisation maps
  stack,          \* call stack of the running analysis, innermost frame last
  ret,            \* value returned by the call that finished last
  log,            \* finished top-level calls: arguments, cache before, result
  \* ---- one parsed interface and a validate pass over it (interface.ts)
  interfaceDef,   \* partial flag, trivia of the first token and of the closing brace
  extAttrs,       \* the extended-attribute list: items, `[` and `]` tokens
  members,        \* the member list
  argParent,      \* parent of every argument node
  diagnostics,    \* what the last validate pass yielded
  invoked,        \* autofix closures of that pass already invoked
  validations,    \* number of validate passes so far
  \* ---- one run of the generator Operation.validate (operation.ts)
  operation,      \* the operation: name, special, idlType, arguments
  opc,            \* position of the generator
  argIndex,       \* position of the loop over the arguments
  yielded,        \* diagnostics yielded so far
  \* ---- a Tokeniser and one call of a parse function on it
  source,         \* tokeniser.source: the types of the tokens
  position,       \* tokeniser.position
  outcome         \* what the call returned or threw, with the cursor at entry

tokVars == <<str, lastCharIndex, trivia, line, index, tokens, tpc>>
valVars == <<unique, cache, stack, ret, log>>
ifaceVars == <<interfaceDef, extAttrs, members, argParent, diagnostics, invoked, validations>>
opVars == <<operation, opc, argIndex, yielded>>
parseVars == <<source, position, outcome>>

vars == <<str, lastCharIndex, trivia, line, index, tokens, tpc,
          unique, cache, stack, ret, log,
          interfaceDef, extAttrs, members, argParent, diagnostics, invoked, validations,
          operation, opc, argIndex, yielded,
          source, position, outcome>>

(***************************************************************************)
(* Bounds of the model.                                                    *)
(***************************************************************************)
MaxLen == 4
MaxQueries == 2
MaxDepth == 10
MaxExtAttrs == 2
MaxMembers == 2
MaxValidations == 2
MaxArgs == 2
MaxChildDiagnostics == 2
MaxTokens == 3

(***************************************************************************)
(* Optional values: a field that JavaScript leaves undefined is None.      *)
(***************************************************************************)
None == <<>>
Some(v) == <<v>>

RECURSIVE Join(_)
Join(s) == IF s = <<>> THEN "" ELSE Head(s) \o Join(Tail(s))

(***************************************************************************)
(* Character classes used by the regular expressions of tokenRe.           *)
(***************************************************************************)
Digits ==
  { "0", "1", "2", "3", "4", "5", "6", "7", "8", "9" }
OctDigits ==
  { "0", "1", "2", "3", "4", "5", "6", "7" }
Upper ==
  { "A", "B", "C", "D", "E", "F", "G", "H", "I", "J", "K", "L", "M",
    "N", "O", "P", "Q", "R", "S", "T", "U", "V", "W", "X", "Y", "Z" }
Lower ==
  { "a", "b", "c", "d", "e", "f", "g", "h", "i", "j", "k", "l", "m",
    "n", "o", "p", "q", "r", "s", "t", "u", "v", "w", "x", "y", "z" }
Letters == Upper \cup Lower
HexDigits == Digits \cup {"A", "B", "C", "D", "E", "F", "a", "b", "c", "d", "e", "f"}
WhitespaceChars == {"\t", "\n", "\r", " "}
\* characters the regex dot does not match
LineTerminators == {"\n", "\r"}
IdentifierTail == Digits \cup Letters \cup {"_", "-"}

typeNameKeywords ==
  { "ArrayBuffer", "DataView", "Int8Array", "Int16Array", "Int32Array",
    "Uint8Array", "Uint16Array", "Uint32Array", "Uint8ClampedArray", "Float32Array",
    "Float64Array", "any", "object", "symbol" }
stringTypes ==
  { "ByteString", "DOMString", "USVString" }
argumentNameKeywords ==
  { "async", "attribute", "callback", "const", "constructor", "deleter",
    "dictionary", "enum", "getter", "includes", "inherit", "interface",
    "iterable", "maplike", "namespace", "partial", "required", "setlike",
    "setter", "static", "stringifier", "typedef", "unrestricted" }
nonRegexTerminals ==
  argumentNameKeywords \cup stringTypes \cup typeNameKeywords \cup
  { "-Infinity", "FrozenArray", "Infinity", "NaN", "Promise", "boolean",
    "byte", "double", "false", "float", "long", "mixin",
    "null", "octet", "optional", "or", "readonly", "record",
    "sequence", "short", "true", "unsigned", "void" }
punctuations == <<"(", ")", ",", "...", ":", ";", "<", "=", ">", "?", "[", "]", "{", "}">>
reserved == {"_constructor", "toString", "_toString"}

(***************************************************************************)
(* Inputs of tokenise: every text over Alphabet of at most MaxLen          *)
(* characters, and a few longer texts that reach the remaining branches.   *)
(***************************************************************************)
Alphabet == {" ", "\n", "/", "*", "a", "1", ".", "\"", ";"}

SampleInputs ==
  { <<"/", "/", " ", "c", "\n", " ", "a", " ", "/", "*", " ", "d", " ", "*", "/", " ", ";", "\n">>,
    <<"t", "o", "S", "t", "r", "i", "n", "g">>,
    <<"_", "t", "o", "S", "t", "r", "i", "n", "g", " ", "x">>,
    <<"-", "I", "n", "f", "i", "n", "i", "t", "y">>,
    <<"-", "1", ".", "5", "e", "+", "3", ";">>,
    <<"0", "x", "1", "F", " ", "0", "1", "7">>,
    <<"1", "e", "5", ".", "e">>,
    <<"/", "*", "*", "*", "/", " ", "/", "*", " ", "a", " ", "*", "*", "/", " ", "*", "/">>,
    <<"\"", "a", "\n", "b", "\"", " ", "o", "r", "\n", "_", "a">>,
    <<"[", "E", "x", "p", "o", "s", "e", "d", "=", "W", "i", "n", "d", "o", "w", "]", "\n", "i", "n", "t", "e", "r", "f", "a", "c", "e", " ", "F", "o", "o", " ", "{", " ", "}", ";">>,
    <<"f", "(", "l", "o", "n", "g", ".", ".", ".", " ", "x", ")", ";">>,
    <<"/", "/", " ", "c", "\r", "\n", "/", "*", " ", "d", " ", "*", "/", "\t", "x">>,
    <<"a", ".", "5", ".", ".", "-">>,
    <<"\n", " ", " ", "c", "o", "n", "s", "t", "r", "u", "c", "t", "o", "r", "(", ")", ";">> }

\* the texts of at most n characters over Alphabet
Texts(n) == UNION {[1..k -> Alphabet] : k \in 0..n}

Inputs == Texts(MaxLen) \cup SampleInputs

(***************************************************************************)
(* tokenRe: each matcher returns re.lastIndex after a sticky match at p,   *)
(* or -1 when the expression does not match at p.                          *)
(***************************************************************************)
At(s, p) == IF p >= 0 /\ p < Len(s) THEN s[p + 1] ELSE ""

\* end of the longest run of characters of set starting at p
RECURSIVE RunEnd(_, _, _)
RunEnd(s, p, set) == IF At(s, p) \in set THEN RunEnd(s, p + 1, set) ELSE p

\* end of the longest run of characters outside set starting at p
RECURSIVE RunEndNot(_, _, _)
RunEndNot(s, p, set) ==
  IF p < Len(s) /\ At(s, p) \notin set THEN RunEndNot(s, p + 1, set) ELSE p

\* whitespace: /[\t\n\r ]+/y
MatchWhitespace(s, p) ==
  IF At(s, p) \in WhitespaceChars THEN RunEnd(s, p, WhitespaceChars) ELSE -1

\* ([^*]|\*[^/])*\*\/ after the opening of a block comment: the position of
\* the closing star, or -1.  The two alternatives exclude each other, so the
\* repetition walks one chain of positions and can only close where the
\* chain meets a star followed by a slash.
RECURSIVE BlockClose(_, _)
BlockClose(s, q) ==
  IF q >= Len(s) THEN -1
  ELSE IF At(s, q) # "*" THEN BlockClose(s, q + 1)
  ELSE IF q + 1 >= Len(s) THEN -1
  ELSE IF At(s, q + 1) = "/" THEN q
  ELSE BlockClose(s, q + 2)

\* the whitespace after a block comment closed at q
AfterBlock(s, q) == IF q = -1 THEN -1 ELSE RunEnd(s, q + 2, WhitespaceChars)

\* \/(\/.*|\*([^*]|\*[^/])*\*\/)[\t\n\r ]*
CommentUnit(s, p) ==
  IF At(s, p) # "/" THEN -1
  ELSE IF At(s, p + 1) = "/"
    THEN RunEnd(s, RunEndNot(s, p + 2, LineTerminators), WhitespaceChars)
  ELSE IF At(s, p + 1) = "*" THEN AfterBlock(s, BlockClose(s, p + 2))
  ELSE -1

\* the repetition of the group: e is the end of the units matched so far
RECURSIVE CommentUnits(_, _, _)
CommentUnits(s, e, e2) == IF e2 = -1 THEN e ELSE CommentUnits(s, e2, CommentUnit(s, e2))

\* comment: /((\/(\/.*|\*([^*]|\*[^/])*\*\/)[\t\n\r ]*)+)/y
MatchComment(s, p) == CommentUnits(s, -1, CommentUnit(s, p))

\* ([Ee][-+]?[0-9]+) at p, or -1
DigitsAt(s, d) == IF At(s, d) \in Digits THEN RunEnd(s, d, Digits) ELSE -1

Exponent(s, p) ==
  IF At(s, p) \notin {"E", "e"} THEN -1
  ELSE DigitsAt(s, IF At(s, p + 1) \in {"-", "+"} THEN p + 2 ELSE p + 1)

\* the optional sign of a number
AfterSign(s, p) == IF At(s, p) = "-" THEN p + 1 ELSE p

\* (...)([Ee][-+]?[0-9]+)? after a mantissa that ends at m
WithExponent(s, m, e) == IF e # -1 THEN e ELSE m

\* ([0-9]+\.[0-9]*|[0-9]*\.[0-9]+): q is where the digits start, n where they end
Mantissa(s, q, n) ==
  IF n > q /\ At(s, n) = "." THEN RunEnd(s, n + 1, Digits)
  ELSE IF At(s, n) = "." /\ At(s, n + 1) \in Digits THEN RunEnd(s, n + 1, Digits)
  ELSE -1

\* the body of decimal after the sign, m the end of the mantissa
DecimalBody(s, q, n, m) ==
  IF ~(At(s, n) = "." \/ (n > q /\ At(s, n) \in {"E", "e"})) THEN -1  \* the lookahead
  ELSE IF m # -1 THEN WithExponent(s, m, Exponent(s, m))
  ELSE IF n > q THEN Exponent(s, n)
  ELSE -1

DecimalAt(s, q, n) == DecimalBody(s, q, n, Mantissa(s, q, n))

\* decimal
MatchDecimal(s, p) == DecimalAt(s, AfterSign(s, p), RunEnd(s, AfterSign(s, p), Digits))

IntegerAt(s, q) ==
  IF At(s, q) = "0"
    THEN IF At(s, q + 1) \in {"X", "x"} /\ At(s, q + 2) \in HexDigits
           THEN RunEnd(s, q + 2, HexDigits)
           ELSE RunEnd(s, q + 1, OctDigits)
  ELSE IF At(s, q) \in Digits THEN RunEnd(s, q, Digits)
  ELSE -1

\* integer: /-?(0([Xx][0-9A-Fa-f]+|[0-7]*)|[1-9][0-9]*)/y
MatchInteger(s, p) == IntegerAt(s, AfterSign(s, p))

IdentifierAt(s, q) ==
  IF At(s, q) \in Letters THEN RunEnd(s, q + 1, IdentifierTail) ELSE -1

\* identifier: /[_-]?[A-Za-z][0-9A-Z_a-z-]*/y
MatchIdentifier(s, p) == IdentifierAt(s, IF At(s, p) \in {"_", "-"} THEN p + 1 ELSE p)

\* string: /"[^"]*"/y
ClosingQuote(s, q) == IF At(s, q) = "\"" THEN q + 1 ELSE -1

MatchString(s, p) ==
  IF At(s, p) # "\"" THEN -1 ELSE ClosingQuote(s, RunEndNot(s, p + 1, {"\""}))

\* other: /[^\t\n\r 0-9A-Za-z]/y
MatchOther(s, p) ==
  IF p < Len(s) /\ At(s, p) \notin (WhitespaceChars \cup Digits \cup Letters)
    THEN p + 1 ELSE -1

tokenRe(type, s, p) ==
  CASE type = "decimal"    -> MatchDecimal(s, p)
    [] type = "integer"    -> MatchInteger(s, p)
    [] type = "identifier" -> MatchIdentifier(s, p)
    [] type = "string"     -> MatchString(s, p)
    [] type = "whitespace" -> MatchWhitespace(s, p)
    [] type = "comment"    -> MatchComment(s, p)
    [] type = "other"      -> MatchOther(s, p)

\* str.startsWith(w, p), w a string constant given as characters
StartsWith(s, w, p) == \A i \in 1..Len(w) : At(s, p + i - 1) = w[i]

Chars(w) ==
  CASE w = "..." -> <<".", ".", ".">>
    [] OTHER     -> <<w>>

\* (text.match(/\n/g) || []).length
NewlineCount(text) == Cardinality({i \in 1..Len(text) : text[i] = "\n"})

(***************************************************************************)
(* tokenise.  A loop state is the record of the function's locals plus     *)
(* `result`; the helpers thread it as the statements of the body do.       *)
(***************************************************************************)
Token(type, value, tr, ln, ix) ==
  [type |-> type, value |-> value, trivia |-> tr, line |-> Some(ln), index |-> Some(ix)]

\* the token pushed after the loop: it has neither line nor index
EofToken(tr) ==
  [type |-> "eof", value |-> <<>>, trivia |-> tr, line |-> None, index |-> None]

\* lines 211-218: the outcome of a match that ended at `end`
Matched(st, s, type, noFlushTrivia, end) ==
  IF end # -1
    THEN [st EXCEPT
           !.tokens = Append(@, Token(type, SubSeq(s, st.lastCharIndex + 1, end),
                                      st.trivia, st.line, st.index)),
           !.trivia = IF noFlushTrivia THEN @ ELSE <<>>,
           !.result = end]
    ELSE [st EXCEPT !.result = -1]

\* an attemptTokenMatch that clears the trivia buffer whatever noFlushTrivia says
attemptTokenMatchFlushing(st, s, type, noFlushTrivia) ==
  Matched(st, s, type, FALSE, tokenRe(type, s, st.lastCharIndex))

\* attemptTokenMatch(type, { noFlushTrivia })
attemptTokenMatch(st, s, type, noFlushTrivia) ==
  Matched(st, s, type, noFlushTrivia, tokenRe(type, s, st.lastCharIndex))

\* lines 131-135: whitespace and comments are matched as tokens first
TriviaAttempt(st, s) ==
  IF At(s, st.lastCharIndex) \in WhitespaceChars
    THEN attemptTokenMatch(st, s, "whitespace", TRUE)
  ELSE IF At(s, st.lastCharIndex) = "/" THEN attemptTokenMatch(st, s, "comment", TRUE)
  ELSE st

\* lines 137-141: the matched text is popped and appended to the buffer
PopTrivia(st) ==
  [st EXCEPT !.tokens = SubSeq(@, 1, Len(@) - 1),
             !.line = @ + NewlineCount(st.tokens[Len(st.tokens)].value),
             !.trivia = @ \o st.tokens[Len(st.tokens)].value,
             !.index = @ - 1]

\* lines 149-162: the reserved check and the keyword re-kinding of the
\* identifier just pushed, whose lexeme is value
Rekind(a, value) ==
  IF a.result = -1 THEN a
  ELSE IF value \in reserved THEN [a EXCEPT !.thrown = TRUE]
  ELSE IF value \in nonRegexTerminals THEN [a EXCEPT !.tokens[Len(a.tokens)].type = value]
  ELSE a

LastValue(a) == IF a.result = -1 THEN "" ELSE Join(a.tokens[Len(a.tokens)].value)

IdentifierMatched(a) == Rekind(a, LastValue(a))

\* lines 148-162
IdentifierAttempt(st, s) == IdentifierMatched(attemptTokenMatch(st, s, "identifier", FALSE))

\* lines 144-146 and 147
OrInteger(d, s) == IF d.result = -1 THEN attemptTokenMatch(d, s, "integer", FALSE) ELSE d
OrIdentifier(i, s) == IF i.result = -1 THEN IdentifierAttempt(i, s) ELSE i

\* lines 142-166
TokenAttempt(st, s) ==
  IF At(s, st.lastCharIndex) \in (Digits \cup Letters \cup {"-", ".", "_"})
    THEN OrIdentifier(OrInteger(attemptTokenMatch(st, s, "decimal", FALSE), s), s)
  ELSE IF At(s, st.lastCharIndex) = "\"" THEN attemptTokenMatch(st, s, "string", FALSE)
  ELSE st

\* lines 168-182: the punctuation loop runs whatever the earlier attempts did
RECURSIVE PunctuationLoop(_, _, _)
PunctuationLoop(st, s, k) ==
  IF k > Len(punctuations) THEN st
  ELSE IF StartsWith(s, Chars(punctuations[k]), st.lastCharIndex)
    THEN [st EXCEPT
           !.tokens = Append(@, Token(punctuations[k], Chars(punctuations[k]),
                                      st.trivia, st.line, st.index)),
           !.trivia = <<>>,
           !.lastCharIndex = @ + Len(Chars(punctuations[k])),
           !.result = st.lastCharIndex + Len(Chars(punctuations[k]))]
  ELSE PunctuationLoop(st, s, k + 1)

\* lines 184-187
OtherAttempt(st, s) ==
  IF st.result = -1 THEN attemptTokenMatch(st, s, "other", FALSE) ELSE st

\* lines 137-166: trivia is popped, anything else is tried as a token
AfterTrivia(t, s) == IF t.result # -1 THEN PopTrivia(t) ELSE TokenAttempt(t, s)

\* lines 168-187, skipped when the reserved check threw
AfterToken(a, s) == IF a.thrown THEN a ELSE OtherAttempt(PunctuationLoop(a, s, 1), s)

\* one iteration of the while loop, up to the two statements that end it
LoopBody(st, s) == AfterToken(AfterTrivia(TriviaAttempt(st, s), s), s)

\* what tokenise leaves alone
TokFrame == UNCHANGED <<valVars, ifaceVars, opVars, parseVars>>

Locals ==
  [tokens |-> tokens, trivia |-> trivia, line |-> line, index |-> index,
   lastCharIndex |-> lastCharIndex, result |-> -1, thrown |-> FALSE]

\* lines 188-192: the end of an iteration whose body left the locals b
EndOfIteration(b) ==
  /\ tokens' = b.tokens
  /\ trivia' = b.trivia
  /\ line' = b.line
  /\ IF b.thrown \/ b.result = -1
       THEN \* WebIDLParseError, or "Token stream not progressing"
            /\ tpc' = "error"
            /\ lastCharIndex' = b.lastCharIndex
            /\ index' = b.index
       ELSE /\ tpc' = "loop"
            /\ lastCharIndex' = b.result
            /\ index' = b.index + 1

\* the other components, parked
TokIdle ==
  /\ str = <<>>
  /\ lastCharIndex = 0
  /\ trivia = <<>>
  /\ line = 1
  /\ index = 0
  /\ tokens = <<>>
  /\ tpc = "idle"

TokInit ==
  /\ str \in Inputs
  /\ lastCharIndex = 0
  /\ trivia = <<>>
  /\ line = 1
  /\ index = 0
  /\ tokens = <<>>
  /\ tpc = "loop"

\* while (lastCharIndex < str.length) { ... }
TokeniseStep ==
  /\ tpc = "loop"
  /\ lastCharIndex < Len(str)
  /\ EndOfIteration(LoopBody(Locals, str))
  /\ UNCHANGED str
  /\ TokFrame

\* lines 195-202: remaining trivia as eof, and return
TokeniseEof ==
  /\ tpc = "loop"
  /\ lastCharIndex >= Len(str)
  /\ tokens' = Append(tokens, EofToken(trivia))
  /\ tpc' = "done"
  /\ UNCHANGED <<str, lastCharIndex, trivia, line, index>>
  /\ TokFrame

TokNext == TokeniseStep \/ TokeniseEof

(***************************************************************************)
(* The definition index and the two memoised analyses.                     *)
(*                                                                         *)
(* A type is a record: union, nullable, idlType (the name a non-union type *)
(* refers to) and subtype (the member types of a union).  A definition is  *)
(* keyed by its name, which is its identity in defs.unique and in the      *)
(* caches.  A cache is a function whose domain is the keys that were set;  *)
(* the value None is JavaScript's undefined, which the source stores both  *)
(* as the indeterminate mark and as a computed "no".                       *)
(***************************************************************************)
Named(name, nullable) ==
  [union |-> FALSE, nullable |-> nullable, idlType |-> name, subtype |-> <<>>]

UnionOf(subtypes) ==
  [union |-> TRUE, nullable |-> FALSE, idlType |-> "", subtype |-> subtypes]

NoType == Named("", FALSE)

TypedefDef(name, target) ==
  [type |-> "typedef", name |-> name, idlType |-> target,
   inheritance |-> "", members |-> <<>>]

\* fields is the sequence of the fields' `required` flags
DictionaryDef(name, inheritance, fields) ==
  [type |-> "dictionary", name |-> name, idlType |-> NoType,
   inheritance |-> inheritance, members |-> fields]

\* Map.prototype.has on defs.unique and on a cache
MapHas(m, k) == k \in DOMAIN m

\* a guard that takes the indeterminate mark for a missing entry
CacheHasValue(m, k) == k \in DOMAIN m /\ m[k] # None

CacheHas(m, k) == k \in DOMAIN m
MapSet(m, k, v) == [x \in (DOMAIN m) \cup {k} |-> IF x = k THEN v ELSE m[x]]
EmptyMap == [x \in {} |-> None]

EmptyCache ==
  [typedefIncludesDictionary |-> EmptyMap, dictionaryIncludesRequiredField |-> EmptyMap]

\* a boolean as a returned or cached value
Bool(b) == Some([boolean |-> b])

\* JavaScript truthiness: of undefined or an object, of undefined or a boolean
Truthy(v) == v # None
TruthyBool(v) == v = Bool(TRUE)

\* the object { reference, dictionary }
IdlTypeDictionary(reference, dictionary) ==
  Some([reference |-> reference, dictionary |-> dictionary])

\* (dict.members as any[]).some(field => field.required)
SomeRequired(fields) == \E k \in 1..Len(fields) : fields[k]

(***************************************************************************)
(* The analyses as a call-stack machine: one action per straight-line      *)
(* stretch of a function body, from its entry or from the return of a      *)
(* recursive call to the next call or return.                              *)
(***************************************************************************)
\* what the analyses leave alone
ValFrame == UNCHANGED <<tokVars, ifaceVars, opVars, parseVars>>

Frame(fn, pc, idlType, useNullableInner, def, i) ==
  [fn |-> fn, pc |-> pc, idlType |-> idlType, useNullableInner |-> useNullableInner,
   def |-> def, i |-> i]

Top == stack[Len(stack)]
Caller == SubSeq(stack, 1, Len(stack) - 1)
Goto(pc) == [stack EXCEPT ![Len(stack)].pc = pc]

\* `return v` of the innermost call; a top-level call is logged
Return(v) ==
  /\ stack' = Caller
  /\ ret' = v
  /\ log' = IF Len(stack) = 1
              THEN [log EXCEPT ![Len(log)].result = v, ![Len(log)].finished = TRUE]
              ELSE log

\* a recursive call from the innermost frame, which resumes at pc
Call(pc, frame) ==
  /\ Len(stack) < MaxDepth
  /\ stack' = Append(Goto(pc), frame)
  /\ UNCHANGED <<ret, log>>

\* lines 15-29 and 37-42: the non-union part, up to the recursion into a typedef
InclEnter ==
  /\ stack # <<>> /\ Top.fn = "incl" /\ Top.pc = "enter"
  /\ LET idlType == Top.idlType
     IN  IF idlType.union
           THEN stack' = Goto("loop") /\ UNCHANGED <<cache, ret, log>>
         ELSE IF ~MapHas(unique, idlType.idlType)
           THEN Return(None) /\ UNCHANGED cache
         ELSE LET def == unique[idlType.idlType]
              IN  IF def.type = "typedef"
                    THEN IF CacheHas(cache.typedefIncludesDictionary, def.name)
                           THEN /\ Return(cache.typedefIncludesDictionary[def.name])
                                /\ UNCHANGED cache
                           ELSE /\ cache' = [cache EXCEPT !.typedefIncludesDictionary =
                                               MapSet(@, def.name, None)]
                                /\ Call("typedefResult",
                                        Frame("incl", "enter", def.idlType, FALSE, "", 1))
                  ELSE IF def.type = "dictionary"
                          /\ (Top.useNullableInner \/ ~idlType.nullable)
                    THEN Return(IdlTypeDictionary(idlType, def.name)) /\ UNCHANGED cache
                  ELSE stack' = Goto("loop") /\ UNCHANGED <<cache, ret, log>>
  /\ UNCHANGED unique
  /\ ValFrame

\* lines 29-36: the recursion into the typedef has returned
InclTypedefResult ==
  /\ stack # <<>> /\ Top.fn = "incl" /\ Top.pc = "typedefResult"
  /\ LET def == unique[Top.idlType.idlType]
         result == ret
     IN  /\ cache' = [cache EXCEPT !.typedefIncludesDictionary = MapSet(@, def.name, result)]
         /\ IF Truthy(result)
              THEN Return(IdlTypeDictionary(Top.idlType, result[1].dictionary))
              ELSE stack' = Goto("loop") /\ UNCHANGED <<ret, log>>
  /\ UNCHANGED unique
  /\ ValFrame

\* lines 44-45 and 56: the next subtype, or the end of the function
InclLoop ==
  /\ stack # <<>> /\ Top.fn = "incl" /\ Top.pc = "loop"
  /\ IF Top.i > Len(Top.idlType.subtype)
       THEN Return(None)
       ELSE Call("subtypeResult", Frame("incl", "enter", Top.idlType.subtype[Top.i], FALSE, "", 1))
  /\ UNCHANGED <<unique, cache>>
  /\ ValFrame

\* lines 46-54: the recursion into a subtype has returned
InclSubtypeResult ==
  /\ stack # <<>> /\ Top.fn = "incl" /\ Top.pc = "subtypeResult"
  /\ LET subtype == Top.idlType.subtype[Top.i]
         result == ret
     IN  IF Truthy(result)
           THEN IF subtype.union
                  THEN Return(result)
                  ELSE Return(IdlTypeDictionary(subtype, result[1].dictionary))
           ELSE /\ stack' = [stack EXCEPT ![Len(stack)].pc = "loop", ![Len(stack)].i = @ + 1]
                /\ UNCHANGED <<ret, log>>
  /\ UNCHANGED <<unique, cache>>
  /\ ValFrame

\* lines 72-74
ReqFinish(dict) ==
  LET result == SomeRequired(dict.members)
  IN  /\ cache' = [cache EXCEPT !.dictionaryIncludesRequiredField =
                     MapSet(@, dict.name, Bool(result))]
      /\ Return(Bool(result))

\* lines 59-68, and 72-74 for a dictionary that inherits nothing
ReqEnter ==
  /\ stack # <<>> /\ Top.fn = "req" /\ Top.pc = "enter"
  /\ LET dict == unique[Top.def]
     IN  IF CacheHas(cache.dictionaryIncludesRequiredField, dict.name)
           THEN /\ Return(cache.dictionaryIncludesRequiredField[dict.name])
                /\ UNCHANGED cache
         ELSE IF dict.inheritance # ""
           THEN /\ cache' = [cache EXCEPT !.dictionaryIncludesRequiredField =
                               MapSet(@, dict.name, None)]
                /\ IF ~MapHas(unique, dict.inheritance)
                     THEN Return(Bool(TRUE))
                     ELSE Call("superResult",
                               Frame("req", "enter", NoType, FALSE, dict.inheritance, 1))
         ELSE ReqFinish(dict)
  /\ UNCHANGED unique
  /\ ValFrame

\* lines 68-74: the recursion into the inherited dictionary has returned
ReqSuperResult ==
  /\ stack # <<>> /\ Top.fn = "req" /\ Top.pc = "superResult"
  /\ IF TruthyBool(ret)
       THEN Return(Bool(TRUE)) /\ UNCHANGED cache
       ELSE ReqFinish(unique[Top.def])
  /\ UNCHANGED unique
  /\ ValFrame

(***************************************************************************)
(* The definition indexes and the calls a validator makes on them.         *)
(***************************************************************************)
TypedefNames == {"TA", "TB"}
DictionaryNames == {"DA", "DB", "DC"}

TA == Named("TA", FALSE)
TB == Named("TB", FALSE)
DA == Named("DA", FALSE)
DB == Named("DB", FALSE)

\* what a typedef of the index may stand for ("long" is in no index)
TypedefTargets ==
  { TA, TB, DA, Named("long", FALSE), Named("DA", TRUE),
    UnionOf(<<TA, DA>>), UnionOf(<<TB, DA>>), UnionOf(<<TA, DB>>), UnionOf(<<TB, DB>>),
    UnionOf(<<Named("long", FALSE), TB>>),
    UnionOf(<<UnionOf(<<TB, Named("DA", TRUE)>>), DB>>) }

\* the types a validator asks about, with the useNullableInner option
InclQueries ==
  { <<TA, FALSE>>, <<TB, FALSE>>, <<Named("DA", TRUE), FALSE>>, <<Named("DA", TRUE), TRUE>>,
    <<UnionOf(<<Named("long", FALSE), TA>>), FALSE>> }

\* the names a query type refers to
Mentioned(t) ==
  IF t.union THEN {t.subtype[k].idlType : k \in 1..Len(t.subtype)} ELSE {t.idlType}

MemberLists == {<<>>, <<FALSE, TRUE>>}
Inheritances == {""} \cup DictionaryNames \cup {"Missing"}

\* an index whose typedefs vary, over two plain dictionaries
TypedefIndexes ==
  { [n \in TypedefNames \cup {"DA", "DB"} |->
       IF n = "TA" THEN TypedefDef(n, a)
       ELSE IF n = "TB" THEN TypedefDef(n, b)
       ELSE DictionaryDef(n, "", <<>>)] : a \in TypedefTargets, b \in TypedefTargets }

\* an index whose dictionaries vary
DictionaryIndexes ==
  { [n \in DictionaryNames |-> DictionaryDef(n, inh[n], mem[n])] :
      inh \in [DictionaryNames -> Inheritances], mem \in [DictionaryNames -> MemberLists] }

ValIdle ==
  /\ unique = EmptyMap
  /\ cache = EmptyCache
  /\ stack = <<>>
  /\ ret = None
  /\ log = <<>>

\* new Definitions: an index and empty caches
ValInit ==
  /\ unique \in TypedefIndexes \cup DictionaryIndexes
  /\ cache = EmptyCache
  /\ stack = <<>>
  /\ ret = None
  /\ log = <<>>

LogEntry(fn, idlType, useNullableInner, def) ==
  [fn |-> fn, idlType |-> idlType, useNullableInner |-> useNullableInner, def |-> def,
   before |-> cache, result |-> None, finished |-> FALSE]

\* a validator calls idlTypeIncludesDictionary(idlType, defs, { useNullableInner })
CallIncl ==
  /\ stack = <<>> /\ Len(log) < MaxQueries
  /\ \E q \in InclQueries :
       /\ Mentioned(q[1]) \subseteq DOMAIN unique \cup {"long"}
       /\ stack' = <<Frame("incl", "enter", q[1], q[2], "", 1)>>
       /\ log' = Append(log, LogEntry("incl", q[1], q[2], ""))
  /\ UNCHANGED <<unique, cache, ret>>
  /\ ValFrame

\* a validator calls dictionaryIncludesRequiredField(dict, defs)
CallReq ==
  /\ stack = <<>> /\ Len(log) < MaxQueries
  /\ \E d \in DOMAIN unique :
       /\ unique[d].type = "dictionary"
       /\ stack' = <<Frame("req", "enter", NoType, FALSE, d, 1)>>
       /\ log' = Append(log, LogEntry("req", NoType, FALSE, d))
  /\ UNCHANGED <<unique, cache, ret>>
  /\ ValFrame

ValNext ==
  \/ CallIncl
  \/ CallReq
  \/ InclEnter
  \/ InclTypedefResult
  \/ InclLoop
  \/ InclSubtypeResult
  \/ ReqEnter
  \/ ReqSuperResult

(***************************************************************************)
(* idlTypeIncludesDictionary once more, as the function it computes from a *)
(* type, an index and the state of its cache: the result and the cache it  *)
(* leaves.  It gives the answer a call would get on any given cache, in    *)
(* particular on a fresh one.                                              *)
(***************************************************************************)
RECURSIVE idlTypeIncludesDictionary(_, _, _, _), SubtypeLoop(_, _, _, _)
idlTypeIncludesDictionary(idlType, defs, c, useNullableInner) ==
  IF idlType.union THEN SubtypeLoop(idlType, defs, c, 1)
  ELSE IF ~MapHas(defs, idlType.idlType) THEN [result |-> None, cache |-> c]
  ELSE LET def == defs[idlType.idlType]
       IN  IF def.type = "typedef"
             THEN IF CacheHas(c, def.name)
                    THEN [result |-> c[def.name], cache |-> c]
                    ELSE LET inner == idlTypeIncludesDictionary(
                                        def.idlType, defs, MapSet(c, def.name, None), FALSE)
                             c2 == MapSet(inner.cache, def.name, inner.result)
                         IN  IF Truthy(inner.result)
                               THEN [result |-> IdlTypeDictionary(idlType, inner.result[1].dictionary),
                                     cache |-> c2]
                               ELSE SubtypeLoop(idlType, defs, c2, 1)
           ELSE IF def.type = "dictionary" /\ (useNullableInner \/ ~idlType.nullable)
             THEN [result |-> IdlTypeDictionary(idlType, def.name), cache |-> c]
           ELSE SubtypeLoop(idlType, defs, c, 1)

SubtypeLoop(idlType, defs, c, i) ==
  IF i > Len(idlType.subtype) THEN [result |-> None, cache |-> c]
  ELSE LET subtype == idlType.subtype[i]
           r == idlTypeIncludesDictionary(subtype, defs, c, FALSE)
       IN  IF Truthy(r.result)
             THEN IF subtype.union
                    THEN r
                    ELSE [result |-> IdlTypeDictionary(subtype, r.result[1].dictionary),
                          cache |-> r.cache]
             ELSE SubtypeLoop(idlType, defs, r.cache, i + 1)

(***************************************************************************)
(* Interface.validate and its autofixes.                                   *)
(*                                                                         *)
(* The tree of one parsed interface: the Interface node, the items of its  *)
(* extended-attribute list, its members, and the arguments held by         *)
(* `Constructor` attributes and constructor members.  A node is named by a *)
(* pair <<kind, number>>; a node's parent is null (None) or Some(node).  A *)
(* token a node may hold is None or Some(its trivia).                      *)
(***************************************************************************)
Iface == <<"interface", 0>>
ExtAttrId(k) == <<"extAttr", k>>
ParamsId(k) == <<"params", k>>
ArgumentId(k) == <<"argument", k>>
MemberId(k) == <<"member", k>>
ExposedId == <<"extAttr", 0>>
ConstructorOpId(k) == <<"constructorOp", k>>

\* what validate and the autofixes leave alone
IfaceFrame == UNCHANGED <<tokVars, valVars, opVars, parseVars>>

\* a parent set by the proxy of autoParenter: `item.parent = parent` for an
\* item whose parent field is defined, as it is (null) for every Base
AutoParent(item, parent) == [item EXCEPT !.parent = Some(parent)]

AutoParentAll(items, parent) == [k \in 1..Len(items) |-> AutoParent(items[k], parent)]

\* Array.prototype.splice(start, deleteCount, ...inserted) through the array
\* proxy of autoParenter(value, target): every element splice stores, the
\* inserted and the shifted ones, passes the set trap
ProxySplice(list, start, deleteCount, inserted, parent) ==
  SubSeq(list, 1, start)
    \o AutoParentAll(inserted \o SubSeq(list, start + deleteCount + 1, Len(list)), parent)

\* findLastIndex(array, predicate), 0-based, -1 when nothing matches; the
\* predicate is given by its value on each item of the array
Matching(flags) == {k \in 1..Len(flags) : flags[k]}

FirstOf(S) == CHOOSE k \in S : \A j \in S : k <= j
LastOf(S) == CHOOSE k \in S : \A j \in S : k >= j

findIndex(flags) == IF Matching(flags) = {} THEN -1 ELSE FirstOf(Matching(flags)) - 1

findLastIndex(flags) ==
  IF Matching(flags) = {} THEN -1 ELSE LastOf(Matching(flags)) - 1

\* extAttrs.indexOf(item): items are compared by identity
IndexOf(items, id) == findIndex([k \in 1..Len(items) |-> items[k].id = id])

\* \s without the newline, which split("\n") removes
IndentChars == {" ", "\t", "\r"}

\* getLastIndentation(str)
LastLineStart(text) ==
  IF \E k \in 1..Len(text) : text[k] = "\n"
    THEN LastOf({k \in 1..Len(text) : text[k] = "\n"}) ELSE 0

LastLine(text) == SubSeq(text, LastLineStart(text) + 1, Len(text))

LeadingIndent(lastLine) == SubSeq(lastLine, 1, RunEnd(lastLine, 0, IndentChars))

getLastIndentation(text) == LeadingIndent(LastLine(text))

\* getMemberIndentation(parentTrivia)
IndentCh(indentation) ==
  IF \E k \in 1..Len(indentation) : indentation[k] = "\t" THEN <<"\t">> ELSE <<" ", " ">>

getMemberIndentation(parentTrivia) ==
  getLastIndentation(parentTrivia) \o IndentCh(getLastIndentation(parentTrivia))

\* /^\s/.test(text), text.includes("\n"), !text.trim()
StartsWithSpace(text) == text # <<>> /\ text[1] \in WhitespaceChars
IncludesNewline(text) == \E k \in 1..Len(text) : text[k] = "\n"
TrimsToEmpty(text) == \A k \in 1..Len(text) : text[k] \in WhitespaceChars

(***************************************************************************)
(* Nodes as the parser leaves them.                                        *)
(***************************************************************************)
\* a SimpleExtendedAttribute: its name token's lexeme and trivia, its
\* separator token, its arguments (for `Constructor(...)`) and its parent
ExtAttr(id, name, nameTrivia, separator, arguments, parent) ==
  [id |-> id, name |-> name, nameTrivia |-> nameTrivia, separator |-> separator,
   arguments |-> arguments, parent |-> parent]

\* a member: its type, the trivia of its first token, its arguments
Member(id, type, firstTrivia, arguments, parent) ==
  [id |-> id, type |-> type, trivia |-> firstTrivia, arguments |-> arguments,
   parent |-> parent]

\* SimpleExtendedAttribute.parse(new Tokeniser("Exposed=Window,")) followed by
\* the consumed comma: a new node, its parent still null
ParsedExposedItem == ExtAttr(ExposedId, "Exposed", <<>>, Some(<<>>), <<>>, None)

\* ExtendedAttributes.parse(new Tokeniser("[Exposed=Window]")): a new list
ParsedExposedList ==
  [items |-> <<ExtAttr(ExposedId, "Exposed", <<>>, None, <<>>, None)>>,
   open |-> Some(<<>>), close |-> Some(<<>>)]

\* Constructor.parse(new Tokeniser(`\n${memberIndent}constructor();`)) for the
\* autofix of attribute k: a new member whose first token carries the text
\* before `constructor` as trivia
ParsedConstructorOp(k, memberIndent) ==
  Member(ConstructorOpId(k), "constructor", <<"\n">> \o memberIndent, <<>>, None)

(***************************************************************************)
(* Interface.validate (lines 46-92): the diagnostics of the rules of this  *)
(* class, in the order they are yielded.  A diagnostic is its kind, the    *)
(* node whose token it is bound to, and its autofix closure if it has one. *)
(***************************************************************************)
Diagnostic(kind, node, autofix) == [kind |-> kind, node |-> node, autofix |-> autofix]

\* Array.prototype.filter: the matching items in their order
Nth(S, n) == CHOOSE k \in S : Cardinality({j \in S : j <= k}) = n

Filter(list, flags) ==
  [n \in 1..Cardinality(Matching(flags)) |-> list[Nth(Matching(flags), n)]]

HasName(list, name) == [k \in 1..Len(list) |-> list[k].name = name]
OfType(list, type) == [k \in 1..Len(list) |-> list[k].type = type]

\* a rule that asks for `Exposed` only
LacksExposedOnly(def, items) ==
  /\ ~def.partial
  /\ \A k \in 1..Len(items) : items[k].name # "Exposed"

\* lines 48-52
LacksExposed(def, items) ==
  /\ ~def.partial
  /\ \A k \in 1..Len(items) : items[k].name # "Exposed"
  /\ \A k \in 1..Len(items) : items[k].name # "NoInterfaceObject"

\* lines 48-61
RequireExposed(def, items) ==
  IF LacksExposed(def, items)
    THEN <<Diagnostic("require-exposed", Iface, Some(<<"autofixAddExposedWindow", Iface>>))>>
    ELSE <<>>

\* lines 62-71
ConstructorMember(items) ==
  LET oldConstructors == Filter(items, HasName(items, "Constructor"))
  IN  [k \in 1..Len(oldConstructors) |->
         Diagnostic("constructor-member", oldConstructors[k].id,
                    Some(<<"autofixConstructor", oldConstructors[k].id>>))]

\* lines 73-86
NoConstructibleGlobal(items, mems) ==
  IF \E k \in 1..Len(items) : items[k].name = "Global"
    THEN LET namedConstructors == Filter(items, HasName(items, "NamedConstructor"))
             constructors == Filter(mems, OfType(mems, "constructor"))
         IN  [k \in 1..Len(namedConstructors) |->
                Diagnostic("no-constructible-global", namedConstructors[k].id, None)]
             \o [k \in 1..Len(constructors) |->
                   Diagnostic("no-constructible-global", constructors[k].id, None)]
    ELSE <<>>

InterfaceDiagnostics(def, items, mems) ==
  RequireExposed(def, items) \o ConstructorMember(items) \o NoConstructibleGlobal(items, mems)

\* the autofix closures the last validate pass offered and nobody invoked yet
Offered ==
  {diagnostics[k].autofix[1] :
     k \in {j \in 1..Len(diagnostics) : diagnostics[j].autofix # None}} \ invoked

\* a caller runs validate over the interface and collects what it yields
Validate ==
  /\ validations < MaxValidations
  /\ validations' = validations + 1
  /\ diagnostics' = InterfaceDiagnostics(interfaceDef, extAttrs.items, members)
  /\ invoked' = {}
  /\ UNCHANGED <<interfaceDef, extAttrs, members, argParent>>
  /\ IfaceFrame

(***************************************************************************)
(* autofixAddExposedWindow (lines 286-304).  `def` is the node itself, not *)
(* its proxy: unshift stores into the plain array.                         *)
(***************************************************************************)
\* lines 292-295: the first existing attribute gets a space before its name
SpacedFirst(items) ==
  IF StartsWithSpace(items[1].nameTrivia) THEN items
  ELSE [items EXCEPT ![1].nameTrivia = <<" ">> \o @]

\* lines 289-296
ExposedUnshifted(list) ==
  [list EXCEPT !.items = <<ParsedExposedItem>> \o SpacedFirst(list.items)]

\* lines 298-300: the new list is assigned through autoParenter(def), and its
\* `[` takes over the trivia of the interface's first token
ExposedListAssigned(def) ==
  [ParsedExposedList EXCEPT !.items = AutoParentAll(@, Iface), !.open = Some(def.base)]

InvokeAddExposedWindow ==
  /\ <<"autofixAddExposedWindow", Iface>> \in Offered
  /\ invoked' = invoked \cup {<<"autofixAddExposedWindow", Iface>>}
  /\ IF Len(extAttrs.items) # 0
       THEN /\ extAttrs' = ExposedUnshifted(extAttrs)
            /\ UNCHANGED interfaceDef
       ELSE /\ extAttrs' = ExposedListAssigned(interfaceDef)
            /\ interfaceDef' = [interfaceDef EXCEPT
                                  !.base = <<"\n">> \o getLastIndentation(interfaceDef.base)]
  /\ UNCHANGED <<members, argParent, diagnostics, validations>>
  /\ IfaceFrame

(***************************************************************************)
(* autofixConstructor (lines 95-125) for the `Constructor` attribute id.   *)
(***************************************************************************)
\* line 98; the list of a parsed interface that has an attribute has its `[`
Indentation(list) == getLastIndentation(list.open[1])

\* lines 99-101
MemberIndent(list, mems) ==
  IF Len(mems) # 0 THEN getLastIndentation(mems[1].trivia)
  ELSE getMemberIndentation(Indentation(list))

\* lines 102-104: the new member with the attribute's arguments
ConstructorOp(attr, list, mems) ==
  [ParsedConstructorOp(attr.id[2], MemberIndent(list, mems)) EXCEPT
     !.arguments = attr.arguments]

\* an insertion after the first constructor member rather than the last
InsertAfterFirstIndex(mems) ==
  findIndex(OfType(mems, "constructor")) + 1

\* line 106 and the start argument of line 107
InsertIndex(mems) ==
  findLastIndex(OfType(mems, "constructor")) + 1

\* lines 106-107
MembersSpliced(attr, list, mems) ==
  ProxySplice(mems, InsertIndex(mems), 0, <<ConstructorOp(attr, list, mems)>>, Iface)

\* lines 109-112
CloseTrivia(def, list) ==
  IF IncludesNewline(def.close) THEN def.close
  ELSE def.close \o <<"\n">> \o Indentation(list)

\* a repair that leaves the comma of the item before a removed last item
RepairedKeepingSeparator(list, at, removed) ==
  IF Len(list.items) = 0
    THEN [list EXCEPT !.open = None, !.close = None]
  ELSE IF Len(list.items) = at
    THEN list
  ELSE IF TrimsToEmpty(list.items[at + 1].nameTrivia)
    THEN [list EXCEPT !.items[at + 1].nameTrivia = removed.nameTrivia]
  ELSE list

\* lines 117-123: the repair of the list after the removal at position at (0-based)
Repaired(list, at, removed) ==
  IF Len(list.items) = 0
    THEN [list EXCEPT !.open = None, !.close = None]
  ELSE IF Len(list.items) = at
    THEN [list EXCEPT !.items[at].separator = None]
  ELSE IF TrimsToEmpty(list.items[at + 1].nameTrivia)
    THEN [list EXCEPT !.items[at + 1].nameTrivia = removed.nameTrivia]
  ELSE list

\* lines 114-116: splice(index, 1) through the proxy of the list
Removed(list, at) ==
  [list EXCEPT !.items = ProxySplice(@, at, 1, <<>>, Iface)]

ExtAttrsRepaired(list, at) ==
  Repaired(Removed(list, at), at, list.items[at + 1])

\* line 104: the arguments are assigned through autoParenter(constructorOp)
ArgumentsAssigned(parents, attr) ==
  [a \in DOMAIN parents |->
     IF \E k \in 1..Len(attr.arguments) : attr.arguments[k] = a
       THEN Some(ConstructorOpId(attr.id[2])) ELSE parents[a]]

AutofixConstructor(attr, at) ==
  /\ members' = MembersSpliced(attr, extAttrs, members)
  /\ argParent' = ArgumentsAssigned(argParent, attr)
  /\ interfaceDef' = [interfaceDef EXCEPT !.close = CloseTrivia(interfaceDef, extAttrs)]
  /\ extAttrs' = ExtAttrsRepaired(extAttrs, at)

InvokeConstructor(id) ==
  /\ <<"autofixConstructor", id>> \in Offered
  /\ invoked' = invoked \cup {<<"autofixConstructor", id>>}
  /\ AutofixConstructor(extAttrs.items[IndexOf(extAttrs.items, id) + 1],
                        IndexOf(extAttrs.items, id))
  /\ UNCHANGED <<diagnostics, validations>>
  /\ IfaceFrame

InvokeAutofixConstructor == \E k \in 1..MaxExtAttrs : InvokeConstructor(ExtAttrId(k))

(***************************************************************************)
(* The interfaces a parse produces, and the state before the first         *)
(* validate pass.                                                          *)
(***************************************************************************)
\* the extended attributes an interface may carry: name, the trivia before
\* the name, the number of arguments
AttrKinds ==
  { <<"Exposed", <<>>, 0>>, <<"NoInterfaceObject", <<" ">>, 0>>,
    <<"Constructor", <<>>, 0>>, <<"Constructor", <<" ">>, 1>>,
    <<"Global", <<"\n", " ">>, 0>>, <<"NamedConstructor", <<>>, 1>>,
    <<"SecureContext", <<"/", "*", "c", "*", "/">>, 0>> }

\* a member's type and the trivia before its first token
MemberKinds ==
  { <<"constructor", <<"\n", " ", " ">>>>, <<"operation", <<"\n", "\t">>>>,
    <<"attribute", <<" ">>>> }

\* the trivia before `[`, before each `,` and before `]` of the block, before
\* `interface` and before `}`
Layouts ==
  { [open |-> <<>>, separator |-> <<>>, bracket |-> <<>>, base |-> <<" ">>, close |-> <<" ">>],
    [open |-> <<"/", "/", "c", "\n", "\t">>, separator |-> <<"/", "*", "s", "*", "/">>,
     bracket |-> <<"/", "*", "b", "*", "/">>, base |-> <<"\n", "\t">>, close |-> <<"\n", "\t">>],
    [open |-> <<"\n", " ", " ">>, separator |-> <<>>, bracket |-> <<" ">>,
     base |-> <<"\n", " ", " ">>, close |-> <<>>] }

SeqsUpTo(S, n) == UNION {[1..k -> S] : k \in 0..n}

ArgumentsOf(k, count) == [j \in 1..count |-> ArgumentId(k)]

\* ExtendedAttributes.parse of a list of the given kinds: every item but the
\* last holds its comma; the list holds `[` and `]` when it has an item.  The
\* items' parent is the definition the list is assigned to.
ParsedExtAttrs(kinds, layout) ==
  [items |-> [k \in 1..Len(kinds) |->
                ExtAttr(ExtAttrId(k), kinds[k][1], kinds[k][2],
                        IF k < Len(kinds) THEN Some(layout.separator) ELSE None,
                        ArgumentsOf(k, kinds[k][3]), Some(Iface))],
   open |-> IF Len(kinds) = 0 THEN None ELSE Some(layout.open),
   close |-> IF Len(kinds) = 0 THEN None ELSE Some(layout.bracket)]

ParsedMembers(kinds) ==
  [k \in 1..Len(kinds) |-> Member(MemberId(k), kinds[k][1], kinds[k][2], <<>>, Some(Iface))]

\* the arguments of attribute k are held by its parameter list
ParsedArgParent(kinds) ==
  [a \in {ArgumentId(k) : k \in {j \in 1..Len(kinds) : kinds[j][3] > 0}} |->
     Some(ParamsId(a[2]))]

IfaceIdle ==
  /\ interfaceDef = [partial |-> FALSE, base |-> <<>>, close |-> <<>>]
  /\ extAttrs = [items |-> <<>>, open |-> None, close |-> None]
  /\ members = <<>>
  /\ argParent = [a \in {} |-> None]
  /\ diagnostics = <<>>
  /\ invoked = {}
  /\ validations = 0

IfaceInit ==
  \E partial \in BOOLEAN, layout \in Layouts,
     attrs \in SeqsUpTo(AttrKinds, MaxExtAttrs), mems \in SeqsUpTo(MemberKinds, MaxMembers) :
    /\ interfaceDef = [partial |-> partial, base |-> layout.base, close |-> layout.close]
    /\ extAttrs = ParsedExtAttrs(attrs, layout)
    /\ members = ParsedMembers(mems)
    /\ argParent = ParsedArgParent(attrs)
    /\ diagnostics = <<>>
    /\ invoked = {}
    /\ validations = 0

IfaceNext ==
  \/ Validate
  \/ InvokeAddExposedWindow
  \/ InvokeAutofixConstructor

(***************************************************************************)
(* Operation.validate (operation.ts lines 51-62), a generator: each action *)
(* is one statement of its body, and `yielded` is what a caller draining   *)
(* it has received so far.  What Type.validate and Argument.validate yield *)
(* for a child is an input: a number of diagnostics bound to that child.   *)
(***************************************************************************)
OperationNode == <<"operation", 0>>
IdlTypeNode == <<"idlType", 0>>
ArgumentNode(k) == <<"argument", k>>

OpFrame == UNCHANGED <<tokVars, valVars, ifaceVars, parseVars>>

\* the diagnostics a child's validate yields, in its order
ChildDiagnostics(node, count) == [k \in 1..count |-> [kind |-> "child-rule", node |-> node, nth |-> k]]

\* validationError(this.tokens.open, this, "incomplete-op", message)
IncompleteOp == [kind |-> "incomplete-op", node |-> OperationNode, nth |-> 1]

\* get name(): "" when the operation has no name token, so !this.name
NameIsEmpty(op) == ~op.named

\* line 52
IsIncomplete(op) == NameIsEmpty(op) /\ op.special \in {"", "static"}

\* lines 52-55
OpCheckIncomplete ==
  /\ opc = "start"
  /\ yielded' = IF IsIncomplete(operation) THEN Append(yielded, IncompleteOp) ELSE yielded
  /\ opc' = "idlType"
  /\ UNCHANGED <<operation, argIndex>>
  /\ OpFrame

\* lines 56-58
OpValidateType ==
  /\ opc = "idlType"
  /\ yielded' = IF operation.idlType # None
                  THEN yielded \o ChildDiagnostics(IdlTypeNode, operation.idlType[1])
                  ELSE yielded
  /\ opc' = "arguments"
  /\ UNCHANGED <<operation, argIndex>>
  /\ OpFrame

\* an iteration from the last argument to the first
ArgumentAtReversed(op, k) == Len(op.arguments) + 1 - k

\* line 59: the loop visits the arguments in the order of the array
ArgumentAt(op, k) == k

\* lines 59-61, one iteration
OpValidateArgument ==
  /\ opc = "arguments"
  /\ argIndex <= Len(operation.arguments)
  /\ yielded' = yielded \o ChildDiagnostics(ArgumentNode(ArgumentAt(operation, argIndex)),
                                            operation.arguments[ArgumentAt(operation, argIndex)])
  /\ argIndex' = argIndex + 1
  /\ UNCHANGED <<operation, opc>>
  /\ OpFrame

\* the loop is over and the generator returns
OpReturn ==
  /\ opc = "arguments"
  /\ argIndex > Len(operation.arguments)
  /\ opc' = "done"
  /\ UNCHANGED <<operation, argIndex, yielded>>
  /\ OpFrame

\* what Operation.parse can return (lines 12-32): a bare `stringifier;` has
\* no return type and no arguments; every other operation has a return type
OperationSpecials == {"", "static", "getter", "setter", "deleter", "stringifier"}

ParsedOperations ==
  {[named |-> FALSE, special |-> "stringifier", idlType |-> None, arguments |-> <<>>]}
  \cup {[named |-> n, special |-> s, idlType |-> Some(t), arguments |-> a] :
          n \in BOOLEAN, s \in OperationSpecials, t \in 0..MaxChildDiagnostics,
          a \in UNION {[1..k -> 0..MaxChildDiagnostics] : k \in 0..MaxArgs}}

OpIdle ==
  /\ operation = [named |-> FALSE, special |-> "", idlType |-> None, arguments |-> <<>>]
  /\ opc = "idle"
  /\ argIndex = 1
  /\ yielded = <<>>

OpInit ==
  /\ operation \in ParsedOperations
  /\ opc = "start"
  /\ argIndex = 1
  /\ yielded = <<>>

OpNext ==
  \/ OpCheckIncomplete
  \/ OpValidateType
  \/ OpValidateArgument
  \/ OpReturn

(***************************************************************************)
(* The member parsers over a token vector: Tokeniser.probe / consume /     *)
(* unconsume (tokeniser.ts 238-256), Attribute.parse, Operation.parse,     *)
(* static_member, stringifier and the list combinator.                     *)
(*                                                                         *)
(* `source` is the vector of token types tokenise returned (eof last) and  *)
(* `position` the 0-based cursor.  A call's outcome is a node, absence     *)
(* (the function returned undefined) or an error (tokeniser.error threw);  *)
(* a consumed token is named by the position it was consumed from.         *)
(***************************************************************************)
ParseFrame == UNCHANGED <<tokVars, valVars, ifaceVars, opVars>>

\* probe(type)
probe(src, pos, type) == Len(src) > pos /\ src[pos + 1] = type

\* consume(...candidates): whether a candidate matches, and the cursor after
Consumes(src, pos, candidates) == \E type \in candidates : probe(src, pos, type)
ConsumePos(src, pos, candidates) == IF Consumes(src, pos, candidates) THEN pos + 1 ELSE pos

\* the token consume returned: undefined, or the token at the old cursor
Consumed(src, pos, candidates) == IF Consumes(src, pos, candidates) THEN Some(pos) ELSE None

\* outcomes of a parse function; items is the array list() returned
NodeAt(pos) == [kind |-> "node", position |-> pos, message |-> "", items |-> <<>>]
AbsentAt(pos) == [kind |-> "absent", position |-> pos, message |-> "", items |-> <<>>]
ErrorAt(pos, message) == [kind |-> "error", position |-> pos, message |-> message, items |-> <<>>]
ItemsAt(pos, items) == [kind |-> "node", position |-> pos, message |-> "", items |-> items]

(***************************************************************************)
(* Type.parse, ExtendedAttributes.parse and Argument.parse: a type is one  *)
(* `identifier` or `sequence` token, an argument is a type and a name, and *)
(* an extended-attribute block does not occur.                             *)
(***************************************************************************)
TypeTokens == {"identifier", "sequence"}

TypeParse(src, pos) ==
  IF Consumes(src, pos, TypeTokens) THEN NodeAt(pos + 1) ELSE AbsentAt(pos)

\* idlType.generic of the type parsed at pos
GenericAt(src, pos) == IF probe(src, pos, "sequence") THEN "sequence" ELSE ""

\* type_with_extended_attributes (interface.ts 233-240)
type_with_extended_attributes(src, pos) == TypeParse(src, pos)

\* return_type (interface.ts 242-253)
return_type(src, pos) ==
  IF TypeParse(src, pos).kind = "node" THEN TypeParse(src, pos)
  ELSE IF Consumes(src, pos, {"void"}) THEN NodeAt(pos + 1)
  ELSE AbsentAt(pos)

\* Argument.parse: absent, with the cursor restored, unless a type and a name follow
ArgumentParse(src, pos) ==
  IF type_with_extended_attributes(src, pos).kind = "node"
       /\ Consumes(src, pos + 1, {"identifier"})
    THEN NodeAt(pos + 2) ELSE AbsentAt(pos)

(***************************************************************************)
(* list (interface.ts 147-167) over Argument.parse.  An item is the span   *)
(* of its tokens and its separator token.                                  *)
(***************************************************************************)
Item(from, to, separator) == [from |-> from, to |-> to, separator |-> separator]

\* line 152 and line 162: the item parsed from `from` to `to` takes the comma
WithSeparator(src, from, to) == Item(from, to, Consumed(src, to, {","}))

\* a combinator that stops at a trailing comma without complaint
ListDanglingLenient(pos, items, allowDangler, listName) == ItemsAt(pos, items)

\* lines 156-161: a comma was consumed and no item follows
ListDangling(pos, items, allowDangler, listName) ==
  IF ~allowDangler THEN ErrorAt(pos, "Trailing comma in " \o listName)
  ELSE ItemsAt(pos, items)

\* lines 154-165: the loop, entered with the cursor after a consumed comma
RECURSIVE ListLoop(_, _, _, _, _)
ListLoop(src, pos, items, allowDangler, listName) ==
  IF ArgumentParse(src, pos).kind # "node"
    THEN ListDangling(ArgumentParse(src, pos).position, items, allowDangler, listName)
  ELSE IF Consumes(src, ArgumentParse(src, pos).position, {","})
    THEN ListLoop(src, ArgumentParse(src, pos).position + 1,
                  Append(items, WithSeparator(src, pos, ArgumentParse(src, pos).position)),
                  allowDangler, listName)
  ELSE ItemsAt(ArgumentParse(src, pos).position,
               Append(items, WithSeparator(src, pos, ArgumentParse(src, pos).position)))

\* lines 148-153 and 166
ListParse(src, pos, allowDangler, listName) ==
  IF ArgumentParse(src, pos).kind # "node"
    THEN ItemsAt(ArgumentParse(src, pos).position, <<>>)
  ELSE IF Consumes(src, ArgumentParse(src, pos).position, {","})
    THEN ListLoop(src, ArgumentParse(src, pos).position + 1,
                  <<WithSeparator(src, pos, ArgumentParse(src, pos).position)>>,
                  allowDangler, listName)
  ELSE ItemsAt(ArgumentParse(src, pos).position,
               <<WithSeparator(src, pos, ArgumentParse(src, pos).position)>>)

\* argument_list (interface.ts 228-230)
argument_list(src, pos) == ListParse(src, pos, FALSE, "arguments list")

(***************************************************************************)
(* Attribute.parse (attribute.ts 6-33).  `special` says whether the caller *)
(* passed a special token (`static` or `stringifier`).                     *)
(***************************************************************************)
\* an early return that leaves the cursor where the lookahead stopped
AttributeAbsentUnrestored(start_position, pos) == AbsentAt(pos)

\* lines 21-24: tokeniser.unconsume(start_position); return
AttributeAbsent(start_position, pos) == AbsentAt(start_position)

\* lines 30-32, with the cursor after the type (messages without their backquotes)
AttributeTail(src, pos) ==
  IF ~Consumes(src, pos, {"identifier", "async", "required"})
    THEN ErrorAt(pos, "Attribute lacks a name")
  ELSE IF ~Consumes(src, pos + 1, {";"})
    THEN ErrorAt(pos + 1, "Unterminated attribute, expected ;")
  ELSE NodeAt(pos + 2)

\* lines 25-29, with the cursor after `attribute`
AttributeType(src, pos) ==
  IF type_with_extended_attributes(src, pos).kind # "node"
    THEN ErrorAt(pos, "Attribute lacks a type")
  ELSE IF GenericAt(src, pos) \in {"sequence", "record"}
    THEN ErrorAt(pos + 1, "Attributes cannot accept " \o GenericAt(src, pos) \o " types")
  ELSE AttributeTail(src, type_with_extended_attributes(src, pos).position)

\* lines 17-24, with the cursor after an optional `readonly`
AttributeBase(src, start_position, pos, readonly, hasReadonly) ==
  IF readonly /\ ~hasReadonly /\ probe(src, pos, "attribute")
    THEN ErrorAt(pos, "Attributes must be readonly in this context")
  ELSE IF ~Consumes(src, pos, {"attribute"})
    THEN AttributeAbsent(start_position, pos)
  ELSE AttributeType(src, pos + 1)

\* lines 13-16, with the cursor after an optional `inherit`
AttributeReadonly(src, start_position, pos, isInherit, readonly) ==
  IF isInherit /\ probe(src, pos, "readonly")
    THEN ErrorAt(pos, "Inherited attributes cannot be read-only")
  ELSE AttributeBase(src, start_position, ConsumePos(src, pos, {"readonly"}), readonly,
                     Consumes(src, pos, {"readonly"}))

\* lines 7-12
AttributeParse(src, pos, special, noInherit, readonly) ==
  IF ~special /\ ~noInherit
    THEN AttributeReadonly(src, pos, ConsumePos(src, pos, {"inherit"}),
                           Consumes(src, pos, {"inherit"}), readonly)
    ELSE AttributeReadonly(src, pos, pos, FALSE, readonly)

(***************************************************************************)
(* Operation.parse (operation.ts 12-32).  `special` is "" when the caller  *)
(* passed none, else the value of the special token; `regular` says        *)
(* whether the caller passed a regular token.                              *)
(***************************************************************************)
\* lines 29-31, with the cursor after the argument list
OperationClose(src, pos) ==
  IF ~Consumes(src, pos, {")"}) THEN ErrorAt(pos, "Unterminated operation")
  ELSE IF ~Consumes(src, pos + 1, {";"})
    THEN ErrorAt(pos + 1, "Unterminated operation, expected ;")
  ELSE NodeAt(pos + 2)

\* line 28: an error of the argument list passes through
OperationArguments(src, pos) ==
  IF argument_list(src, pos).kind = "error" THEN argument_list(src, pos)
  ELSE OperationClose(src, argument_list(src, pos).position)

\* lines 26-27, with the cursor after the return type
OperationName(src, pos) ==
  IF ~Consumes(src, ConsumePos(src, pos, {"identifier", "includes"}), {"("})
    THEN ErrorAt(ConsumePos(src, pos, {"identifier", "includes"}), "Invalid operation")
  ELSE OperationArguments(src, ConsumePos(src, pos, {"identifier", "includes"}) + 1)

\* line 25
OperationReturnType(src, pos) ==
  IF return_type(src, pos).kind # "node" THEN ErrorAt(pos, "Missing return type")
  ELSE OperationName(src, return_type(src, pos).position)

\* lines 22-24
OperationSpecial(src, pos, special, regular) ==
  IF special = "" /\ ~regular
    THEN OperationReturnType(src, ConsumePos(src, pos, {"getter", "setter", "deleter"}))
    ELSE OperationReturnType(src, pos)

\* lines 13-21
OperationParse(src, pos, special, regular) ==
  IF special = "stringifier" /\ Consumes(src, pos, {";"})
    THEN NodeAt(pos + 1)
    ELSE OperationSpecial(src, pos, special, regular)

(***************************************************************************)
(* static_member (interface.ts 14-21) and stringifier (255-262).           *)
(***************************************************************************)
\* Attribute.parse(tokeniser, { special }) || Operation.parse(tokeniser, { special })
\*   || tokeniser.error(message), with the cursor after the keyword
SpecialMember(src, pos, special, message) ==
  IF AttributeParse(src, pos, TRUE, FALSE, FALSE).kind # "absent"
    THEN AttributeParse(src, pos, TRUE, FALSE, FALSE)
  ELSE IF OperationParse(src, AttributeParse(src, pos, TRUE, FALSE, FALSE).position,
                         special, FALSE).kind # "absent"
    THEN OperationParse(src, AttributeParse(src, pos, TRUE, FALSE, FALSE).position,
                        special, FALSE)
  ELSE ErrorAt(OperationParse(src, AttributeParse(src, pos, TRUE, FALSE, FALSE).position,
                              special, FALSE).position, message)

static_member(src, pos) ==
  IF ~Consumes(src, pos, {"static"}) THEN AbsentAt(pos)
  ELSE SpecialMember(src, pos + 1, "static", "No body in static member")

stringifier(src, pos) ==
  IF ~Consumes(src, pos, {"stringifier"}) THEN AbsentAt(pos)
  ELSE SpecialMember(src, pos + 1, "stringifier", "Unterminated stringifier")

(***************************************************************************)
(* Calls.  A caller invokes one of the functions at the current cursor.    *)
(***************************************************************************)
\* what is recorded of a call: the function, its options, the cursor at
\* entry, and what came out
Outcome(fn, options, entry, result) ==
  [fn |-> fn, options |-> options, entry |-> entry, kind |-> result.kind,
   message |-> result.message, items |-> result.items]

NoOptions == [special |-> "", regular |-> FALSE, noInherit |-> FALSE, readonly |-> FALSE,
              allowDangler |-> FALSE, listName |-> ""]

\* the call returns or throws: the cursor is where the function left it
Returns(fn, options, result) ==
  /\ outcome' = Some(Outcome(fn, options, position, result))
  /\ position' = result.position
  /\ UNCHANGED source

CallAttributeParse ==
  /\ outcome = None
  /\ \E noInherit \in BOOLEAN, readonly \in BOOLEAN :
       Returns("Attribute.parse",
               [NoOptions EXCEPT !.noInherit = noInherit, !.readonly = readonly],
               AttributeParse(source, position, FALSE, noInherit, readonly))
  /\ ParseFrame

CallOperationParse ==
  /\ outcome = None
  /\ \E regular \in BOOLEAN :
       Returns("Operation.parse", [NoOptions EXCEPT !.regular = regular],
               OperationParse(source, position, "", regular))
  /\ ParseFrame

CallStaticMember ==
  /\ outcome = None
  /\ Returns("static_member", NoOptions, static_member(source, position))
  /\ ParseFrame

CallStringifier ==
  /\ outcome = None
  /\ Returns("stringifier", NoOptions, stringifier(source, position))
  /\ ParseFrame

ListNames == {"arguments list", "list"}

CallList ==
  /\ outcome = None
  /\ \E allowDangler \in BOOLEAN, listName \in ListNames :
       Returns("list", [NoOptions EXCEPT !.allowDangler = allowDangler, !.listName = listName],
               ListParse(source, position, allowDangler, listName))
  /\ ParseFrame

\* the token types of the short vectors, all of which are tried, and some
\* longer vectors; eof ends every vector tokenise returns
TokenTypes ==
  {"static", "stringifier", "inherit", "readonly", "attribute", "void", "identifier",
   "(", ")", ",", ";"}

SampleSources ==
  { <<"identifier", "identifier", "(", "identifier", "identifier", ",", "identifier",
      "identifier", ")", ";">>,
    <<"static", "void", "identifier", "(", "identifier", "identifier", ",", ")", ";">>,
    <<"static", "readonly", "attribute", "identifier", "identifier", ";">>,
    <<"stringifier", "readonly", "attribute", "identifier", "identifier", ";">>,
    <<"stringifier", "identifier", "identifier", "(", ")", ";">>,
    <<"inherit", "attribute", "identifier", "identifier", ";", "stringifier", ";">>,
    <<"readonly", "attribute", "sequence", "identifier", ";">>,
    <<"identifier", "identifier", ",", "identifier", "identifier", ",", "identifier",
      "identifier">>,
    <<"identifier", "identifier", ",", "identifier", "identifier", ",", ";">>,
    <<"getter", "identifier", "(", "identifier", "identifier", ")", ";">> }

Sources ==
  {s \o <<"eof">> : s \in SampleSources \cup UNION {[1..k -> TokenTypes] : k \in 0..MaxTokens}}

ParseIdle ==
  /\ source = <<>>
  /\ position = 0
  /\ outcome = None

ParseInit ==
  /\ source \in Sources
  /\ position \in 0..(Len(source) - 1)
  /\ outcome = None

ParseNext ==
  \/ CallAttributeParse
  \/ CallOperationParse
  \/ CallStaticMember
  \/ CallStringifier
  \/ CallList

(***************************************************************************)
(* Specifications, one per component; the other components stay parked.    *)
(***************************************************************************)
InitTokenise == TokInit /\ ValIdle /\ IfaceIdle /\ OpIdle /\ ParseIdle
SpecTokenise == InitTokenise /\ [][TokNext]_vars

InitValidators == ValInit /\ TokIdle /\ IfaceIdle /\ OpIdle /\ ParseIdle
SpecValidators == InitValidators /\ [][ValNext]_vars

\* an analysis runs to completion once called: nothing else is scheduled
FairSpecValidators == SpecValidators /\ WF_vars(ValNext)

InitInterface == IfaceInit /\ TokIdle /\ ValIdle /\ OpIdle /\ ParseIdle
SpecInterface == InitInterface /\ [][IfaceNext]_vars

InitOperation == OpInit /\ TokIdle /\ ValIdle /\ IfaceIdle /\ ParseIdle
SpecOperation == InitOperation /\ [][OpNext]_vars

InitParse == ParseInit /\ TokIdle /\ ValIdle /\ IfaceIdle /\ OpIdle
SpecParse == InitParse /\ [][ParseNext]_vars

(***************************************************************************)
(* C1: when tokenise returns, trivia + value over the tokens in vector     *)
(* order, the eof token's trivia last, is the input, character for         *)
(* character; while the loop runs, the tokens so far plus the pending      *)
(* trivia buffer are exactly the consumed prefix of the input.             *)
(***************************************************************************)
RECURSIVE Written(_)
Written(ts) ==
  IF ts = <<>> THEN <<>>
  ELSE Written(SubSeq(ts, 1, Len(ts) - 1)) \o ts[Len(ts)].trivia \o ts[Len(ts)].value

TriviaCoverage ==
  /\ tpc = "done" => Written(tokens) = str
  /\ tpc = "loop" => Written(tokens) \o trivia = SubSeq(str, 1, lastCharIndex)

\* a returned vector in which trivia (whitespace and a comment) was attached
\* to a later token and more trivia was left for eof
TriviaCoverageWitness ==
  /\ tpc = "done"
  /\ Len(tokens) >= 3
  /\ \E k \in 1..(Len(tokens) - 1) : "/" \in {tokens[k].trivia[i] : i \in 1..Len(tokens[k].trivia)}
  /\ tokens[Len(tokens)].trivia # <<>>

(***************************************************************************)
(* C2: in a returned vector the token at position k (0-based, the eof      *)
(* token included) has index k, and line never decreases along the vector. *)
(* A field that is undefined equals no number and compares false.          *)
(***************************************************************************)
LineLeq(a, b) == a # None /\ b # None /\ a[1] <= b[1]

TokenIndices ==
  tpc = "done" =>
    /\ \A k \in 1..Len(tokens) : tokens[k].index = Some(k - 1)
    /\ \A k \in 1..(Len(tokens) - 1) : LineLeq(tokens[k].line, tokens[k + 1].line)

\* the number of characters of the input before the lexeme of token k
LexemeStart(k) == Len(Written(SubSeq(tokens, 1, k - 1))) + Len(tokens[k].trivia)

NewlinesBefore(n) == Cardinality({i \in 1..n : str[i] = "\n"})

\* C13: in a returned vector every token but eof has as line 1 plus the
\* number of newline characters of the input before the first character of
\* its lexeme, wherever those newlines are (in trivia or inside earlier
\* tokens such as string literals).
TokenLines ==
  tpc = "done" =>
    \A k \in 1..Len(tokens) :
      tokens[k].type # "eof" => tokens[k].line = Some(1 + NewlinesBefore(LexemeStart(k)))

(***************************************************************************)
(* C3: every call of idlTypeIncludesDictionary and of                      *)
(* dictionaryIncludesRequiredField returns, on every index, cyclic ones    *)
(* included, and a definition is recursed into only while it has no cache  *)
(* entry: the step that starts computing a typedef or the dictionary a     *)
(* dictionary inherits from finds that definition's key absent.            *)
(***************************************************************************)
ComputedAt(frame) ==
  IF frame.fn = "incl" THEN frame.idlType.idlType ELSE frame.def

StartsComputing ==
  /\ stack # <<>>
  /\ Len(stack') = Len(stack) + 1
  /\ stack'[Len(stack)].pc \in {"typedefResult", "superResult"}

NoReentry ==
  StartsComputing =>
    LET frame == stack'[Len(stack)]
    IN  IF frame.fn = "incl"
          THEN ComputedAt(frame) \notin DOMAIN cache.typedefIncludesDictionary
          ELSE ComputedAt(frame) \notin DOMAIN cache.dictionaryIncludesRequiredField

AnalysesTerminate ==
  /\ [][NoReentry]_vars
  /\ (stack # <<>>) ~> (stack = <<>>)

\* a recursion has come back, through a union, to a typedef that is still
\* being computed further down the stack
AnalysesTerminateWitness ==
  /\ Len(stack) >= 3
  /\ Top.fn = "incl" /\ Top.pc = "enter" /\ ~Top.idlType.union
  /\ stack[Len(stack) - 1].idlType.union
  /\ \E j \in 1..(Len(stack) - 2) :
       /\ stack[j].pc = "typedefResult"
       /\ ComputedAt(stack[j]) = Top.idlType.idlType
       /\ cache.typedefIncludesDictionary[Top.idlType.idlType] = None

(***************************************************************************)
(* C4: on an index whose dictionary inheritance is acyclic, a call of      *)
(* dictionaryIncludesRequiredField returns true whenever the dictionary or *)
(* one on its inheritance chain has a required member, and a repeated call *)
(* for a dictionary returns what the first call returned.                  *)
(***************************************************************************)
Inherited(defs, d) ==
  IF defs[d].inheritance # "" /\ MapHas(defs, defs[d].inheritance)
    THEN {defs[d].inheritance} ELSE {}

RECURSIVE InheritanceChain(_, _, _)
InheritanceChain(defs, d, seen) ==
  IF d \in seen THEN seen
  ELSE IF Inherited(defs, d) = {} THEN seen \cup {d}
  ELSE InheritanceChain(defs, defs[d].inheritance, seen \cup {d})

RECURSIVE ReturnsToItself(_, _, _)
ReturnsToItself(defs, d, seen) ==
  \E s \in Inherited(defs, d) : s \in seen \/ ReturnsToItself(defs, s, seen \cup {s})

InheritanceAcyclic(defs) ==
  \A d \in DOMAIN defs : defs[d].type = "dictionary" => ~ReturnsToItself(defs, d, {d})

ChainHasRequired(defs, d) ==
  \E s \in InheritanceChain(defs, d, {}) : SomeRequired(defs[s].members)

RequiredFieldFound ==
  \A k \in 1..Len(log) :
    (log[k].finished /\ log[k].fn = "req" /\ InheritanceAcyclic(unique)) =>
      /\ ChainHasRequired(unique, log[k].def) => log[k].result = Bool(TRUE)
      /\ \A j \in 1..(k - 1) :
           (log[j].fn = "req" /\ log[j].def = log[k].def) => log[k].result = log[j].result

(***************************************************************************)
(* C5: two successive calls of idlTypeIncludesDictionary with the same     *)
(* non-union type naming a typedef that resolves to a dictionary return    *)
(* equal results: the same dictionary and the same reference type.         *)
(***************************************************************************)
NamesTypedef(defs, t) ==
  ~t.union /\ MapHas(defs, t.idlType) /\ defs[t.idlType].type = "typedef"

FreshAnswer(t, useNullableInner) ==
  idlTypeIncludesDictionary(t, unique, EmptyMap, useNullableInner).result

RepeatedCallEqual ==
  \A k \in 1..(Len(log) - 1) :
    ( /\ log[k + 1].finished
      /\ log[k].fn = "incl" /\ log[k + 1].fn = "incl"
      /\ log[k].idlType = log[k + 1].idlType
      /\ log[k].useNullableInner = log[k + 1].useNullableInner
      /\ NamesTypedef(unique, log[k].idlType)
      /\ Truthy(FreshAnswer(log[k].idlType, log[k].useNullableInner)) )
    => log[k + 1].result = log[k].result

(***************************************************************************)
(* C6: on an index whose typedefs refer to each other cyclically, whether  *)
(* a call of idlTypeIncludesDictionary for a typedef finds a dictionary,   *)
(* and which one, is what the same call finds on a fresh cache, whatever   *)
(* calls were made on the cache before.                                    *)
(***************************************************************************)
RECURSIVE TypeNames(_)
TypeNames(t) ==
  IF t.union THEN UNION {TypeNames(t.subtype[k]) : k \in 1..Len(t.subtype)}
  ELSE {t.idlType}

TypedefsOf(defs) == {n \in DOMAIN defs : defs[n].type = "typedef"}

RefersTo(defs, n) == TypeNames(defs[n].idlType) \cap TypedefsOf(defs)

RECURSIVE Reachable(_, _, _)
Reachable(defs, frontier, seen) ==
  IF frontier \subseteq seen THEN seen
  ELSE Reachable(defs, UNION {RefersTo(defs, n) : n \in frontier}, seen \cup frontier)

HasTypedefCycle(defs) ==
  \E n \in TypedefsOf(defs) : n \in Reachable(defs, RefersTo(defs, n), {})

SameAnswer(a, b) ==
  /\ Truthy(a) <=> Truthy(b)
  /\ Truthy(a) => a[1].dictionary = b[1].dictionary

OrderIndependent ==
  \A k \in 1..Len(log) :
    ( /\ log[k].finished /\ log[k].fn = "incl"
      /\ NamesTypedef(unique, log[k].idlType)
      /\ HasTypedefCycle(unique) )
    => SameAnswer(log[k].result, FreshAnswer(log[k].idlType, log[k].useNullableInner))

(***************************************************************************)
(* Claims about Interface.validate and its autofixes (SpecInterface).      *)
(***************************************************************************)
Ids(list) == [k \in 1..Len(list) |-> list[k].id]
Names(list) == [k \in 1..Len(list) |-> list[k].name]

Without(list, at) == SubSeq(list, 1, at - 1) \o SubSeq(list, at + 1, Len(list))

PositionOf(list, id) == CHOOSE k \in 1..Len(list) : list[k].id = id

\* a step that is a validate pass, and a step that invokes the given closure
ValidateStep == validations' = validations + 1
InvokeStep(closure) == closure \notin invoked /\ invoked' = invoked \cup {closure}

Yields(kind) == \E k \in 1..Len(diagnostics) : diagnostics[k].kind = kind

NeedsExposed ==
  /\ ~interfaceDef.partial
  /\ \A k \in 1..Len(extAttrs.items) :
       extAttrs.items[k].name \notin {"Exposed", "NoInterfaceObject"}

ExposedInserted == \E k \in 1..Len(extAttrs.items) : extAttrs.items[k].id = ExposedId

RequireExposedStep ==
  /\ ValidateStep => (Yields("require-exposed")' <=> NeedsExposed)
  /\ ValidateStep /\ ExposedInserted => ~Yields("require-exposed")'
  /\ InvokeStep(<<"autofixAddExposedWindow", Iface>>) =>
       /\ Len(extAttrs'.items) = Len(extAttrs.items) + 1
       /\ extAttrs'.items[1].name = "Exposed"
       /\ Ids(Tail(extAttrs'.items)) = Ids(extAttrs.items)
       /\ Names(Tail(extAttrs'.items)) = Names(extAttrs.items)
       /\ ~NeedsExposed'

\* C7: a validate pass yields `require-exposed` exactly when the interface is
\* not partial and no extended attribute is named Exposed or
\* NoInterfaceObject; the autofix of that diagnostic puts an attribute named
\* Exposed first, followed by the attributes present before in their order; and
\* a validate pass after the autofix yields no `require-exposed`.
RequireExposedContract == [][RequireExposedStep]_vars

\* the autofix ran on a list that had items, and the interface was validated again
RequireExposedWitness ==
  /\ ExposedInserted
  /\ Len(extAttrs.items) > 1
  /\ validations = 2
  /\ <<"autofixAddExposedWindow", Iface>> \notin invoked
  /\ ~Yields("require-exposed")

ConstructorAttrIds ==
  {extAttrs.items[k].id : k \in {j \in 1..Len(extAttrs.items) : extAttrs.items[j].name = "Constructor"}}

ConstructorDiagnostics ==
  {k \in 1..Len(diagnostics) : diagnostics[k].kind = "constructor-member"}

\* 1-based position of the last constructor member, 0 when there is none
LastConstructor(mems) ==
  IF \E k \in 1..Len(mems) : mems[k].type = "constructor"
    THEN CHOOSE k \in 1..Len(mems) :
           /\ mems[k].type = "constructor"
           /\ \A j \in (k + 1)..Len(mems) : mems[j].type # "constructor"
    ELSE 0

ConstructorInserted(attr, at) ==
  /\ Len(members') = Len(members) + 1
  /\ members'[at].type = "constructor"
  /\ members'[at].arguments = attr.arguments
  /\ \A k \in 1..Len(members) : members[k].id # members'[at].id
  /\ Ids(Without(members', at)) = Ids(members)
  /\ Ids(extAttrs'.items) = Ids(Without(extAttrs.items, PositionOf(extAttrs.items, attr.id)))
  /\ Names(extAttrs'.items) = Names(Without(extAttrs.items, PositionOf(extAttrs.items, attr.id)))

ConstructorMemberStep ==
  /\ ValidateStep =>
       /\ Cardinality(ConstructorDiagnostics') = Cardinality(ConstructorAttrIds)
       /\ {diagnostics'[k].node : k \in ConstructorDiagnostics'} = ConstructorAttrIds
       /\ \A k \in ConstructorDiagnostics' :
            diagnostics'[k].autofix = Some(<<"autofixConstructor", diagnostics'[k].node>>)
  /\ \A k \in 1..Len(extAttrs.items) :
       InvokeStep(<<"autofixConstructor", extAttrs.items[k].id>>) =>
         ConstructorInserted(extAttrs.items[k], LastConstructor(members) + 1)

\* C8: a validate pass yields one `constructor-member` diagnostic per
\* `Constructor` attribute; each invocation of one of their autofixes inserts
\* one new constructor member with that attribute's arguments right after the
\* last constructor member (first when there is none), keeps the other members
\* in order, and removes that attribute and no other from the list.
ConstructorMemberContract == [][ConstructorMemberStep]_vars

\* both autofixes of an interface with two `Constructor` attributes and a
\* constructor member have run
ConstructorMemberWitness ==
  /\ Cardinality({c \in invoked : c[1] = "autofixConstructor"}) = 2
  /\ \E k \in 1..Len(members) : members[k].id[1] = "member" /\ members[k].type = "constructor"
  /\ Cardinality({k \in 1..Len(members) : members[k].id[1] = "constructorOp"}) = 2
  /\ \E k \in 1..Len(members) :
       members[k].id[1] = "constructorOp" /\ members[k].arguments # <<>>

\* C10: every extended attribute of the list and every member has the
\* interface as its parent, and every argument has the node that holds it as
\* its parent, in every state reached by parsing and invoking offered autofixes.
ParentLinkage ==
  /\ \A k \in 1..Len(extAttrs.items) : extAttrs.items[k].parent = Some(Iface)
  /\ \A k \in 1..Len(members) : members[k].parent = Some(Iface)
  /\ \A k \in 1..Len(members) : \A j \in 1..Len(members[k].arguments) :
       argParent[members[k].arguments[j]] = Some(members[k].id)
  /\ \A k \in 1..Len(extAttrs.items) : \A j \in 1..Len(extAttrs.items[k].arguments) :
       argParent[extAttrs.items[k].arguments[j]] = Some(ParamsId(extAttrs.items[k].id[2]))

\* C14: after any autofixes of a validate pass, in any order, the
\* extended-attribute list is well formed: `[` and `]` are both there exactly
\* when the list has an item, every item but the last holds a separator, and
\* the last holds none.
ExtAttrsWellFormed ==
  /\ (extAttrs.open # None /\ extAttrs.close # None) <=> Len(extAttrs.items) > 0
  /\ \A k \in 1..(Len(extAttrs.items) - 1) : extAttrs.items[k].separator # None
  /\ Len(extAttrs.items) > 0 => extAttrs.items[Len(extAttrs.items)].separator = None

\* both autofixes of one validate pass ran on `[X, Constructor]`-like input:
\* Exposed was put first and the last item was removed
ExtAttrsWellFormedWitness ==
  /\ validations = 1
  /\ <<"autofixAddExposedWindow", Iface>> \in invoked
  /\ \E c \in invoked : c[1] = "autofixConstructor"
  /\ ConstructorAttrIds = {}
  /\ Len(extAttrs.items) >= 2

TokenTrivia(token) == IF token = None THEN {} ELSE {token[1]}

\* the trivia of the tokens of the block other than those of the item `id`
BlockTrivia(list, id) ==
  TokenTrivia(list.open) \cup TokenTrivia(list.close)
    \cup {list.items[k].nameTrivia : k \in {j \in 1..Len(list.items) : list.items[j].id # id}}
    \cup UNION {TokenTrivia(list.items[k].separator) :
                  k \in {j \in 1..Len(list.items) : list.items[j].id # id}}

\* the trivia of every token of the tree
TreeTrivia(def, list, mems) ==
  {def.base, def.close} \cup BlockTrivia(list, <<"none", 0>>)
    \cup {mems[k].trivia : k \in 1..Len(mems)}

\* text occurs in whole, as a run of consecutive characters
OccursIn(text, whole) ==
  \E from \in 0..(Len(whole) - Len(text)) : SubSeq(whole, from + 1, from + Len(text)) = text

TriviaKeptStep ==
  \A k \in 1..Len(extAttrs.items) :
    InvokeStep(<<"autofixConstructor", extAttrs.items[k].id>>) =>
      \A text \in BlockTrivia(extAttrs, extAttrs.items[k].id) :
        \E whole \in TreeTrivia(interfaceDef', extAttrs', members') : OccursIn(text, whole)

\* C15: a constructor-member autofix discards no trivia of tokens other than
\* the removed attribute's own: the trivia of `[`, of `]`, and of the name and
\* separator tokens of the other attributes is part of the trivia of some
\* token of the tree afterwards.
TriviaKept == [][TriviaKeptStep]_vars

(***************************************************************************)
(* Claims about Operation.validate (SpecOperation).                        *)
(***************************************************************************)
OwnPositions == {k \in 1..Len(yielded) : yielded[k].kind = "incomplete-op"}
ChildPositions == {k \in 1..Len(yielded) : yielded[k].kind = "child-rule"}

Rank(d) ==
  IF d.kind = "incomplete-op" THEN 0
  ELSE IF d.node = IdlTypeNode THEN 1
  ELSE 1 + d.node[2]

ExpectedFrom(node, count) ==
  \A n \in 1..count : \E k \in 1..Len(yielded) :
    yielded[k].kind = "child-rule" /\ yielded[k].node = node /\ yielded[k].nth = n

MemberParsers == {"Attribute.parse", "Operation.parse", "static_member", "stringifier"}

\* the keyword a function consumes first, when the vector has it at the
\* cursor the call started from
ConsumedKeyword(o) ==
  \/ o.fn = "static_member" /\ source[o.entry + 1] = "static"
  \/ o.fn = "stringifier" /\ source[o.entry + 1] = "stringifier"

AbsenceOf(o) ==
  /\ o.fn \in MemberParsers /\ o.kind = "absent" => position = o.entry
  /\ o.fn = "Operation.parse" => o.kind \in {"node", "error"}
  /\ ConsumedKeyword(o) => o.kind \in {"node", "error"}

\* C11: when Attribute.parse, Operation.parse, static_member or stringifier
\* returns nothing the cursor is where it was at entry; Operation.parse always
\* returns a node or raises, and so do static_member and stringifier once
\* their keyword is consumed.
AbsenceConsumesNothing == outcome # None => AbsenceOf(outcome[1])

\* Attribute.parse consumed `inherit` and `readonly`-free lookahead found no
\* `attribute`: it returned nothing, from a cursor past the start of the vector
AbsenceConsumesNothingWitness ==
  /\ outcome # None
  /\ outcome[1].fn = "Attribute.parse"
  /\ outcome[1].kind = "absent"
  /\ ~outcome[1].options.noInherit
  /\ outcome[1].entry > 0
  /\ source[outcome[1].entry + 1] = "inherit"

\* where the k-th item of a list parsed from `entry` starts and ends, as
\* long as every item before it is there and is followed by a comma
ItemEnd(from) == ArgumentParse(source, from).position
ItemThere(from) == ArgumentParse(source, from).kind = "node"
CommaAt(pos) == pos < Len(source) /\ source[pos + 1] = ","

RECURSIVE ItemStart(_, _)
ItemStart(entry, k) == IF k = 1 THEN entry ELSE ItemEnd(ItemStart(entry, k - 1)) + 1

\* n items, each followed by a comma, and no item after the last comma
DanglingAfter(entry, n) ==
  /\ \A k \in 1..n : ItemThere(ItemStart(entry, k)) /\ CommaAt(ItemEnd(ItemStart(entry, k)))
  /\ ~ItemThere(ItemStart(entry, n + 1))

\* n items, commas between them, and no comma after the last
EndsAfter(entry, n) ==
  /\ \A k \in 1..n : ItemThere(ItemStart(entry, k))
  /\ \A k \in 1..(n - 1) : CommaAt(ItemEnd(ItemStart(entry, k)))
  /\ ~CommaAt(ItemEnd(ItemStart(entry, n)))

ItemsAre(o, n) ==
  /\ Len(o.items) = n
  /\ \A k \in 1..n :
       /\ o.items[k].from = ItemStart(o.entry, k)
       /\ o.items[k].to = ItemEnd(ItemStart(o.entry, k))
       /\ o.items[k].separator =
            IF CommaAt(o.items[k].to) THEN Some(o.items[k].to) ELSE None
  /\ \A k \in 1..(n - 1) : o.items[k].separator # None

ListOutcome(o) ==
  /\ ~ItemThere(o.entry) => o.kind = "node" /\ o.items = <<>> /\ position = o.entry
  /\ \A n \in 1..Len(source) :
       /\ EndsAfter(o.entry, n) =>
            /\ o.kind = "node" /\ ItemsAre(o, n)
            /\ o.items[n].separator = None
            /\ position = o.items[n].to
       /\ DanglingAfter(o.entry, n) /\ o.options.allowDangler =>
            /\ o.kind = "node" /\ ItemsAre(o, n)
            /\ o.items[n].separator = Some(o.items[n].to)
            /\ position = o.items[n].to + 1
       /\ DanglingAfter(o.entry, n) /\ ~o.options.allowDangler =>
            /\ o.kind = "error"
            /\ o.message = "Trailing comma in " \o o.options.listName
  /\ o.kind = "error" => \E n \in 1..Len(source) : DanglingAfter(o.entry, n)

\* C12: list returns the empty list and leaves the cursor when the first
\* item is absent; otherwise the items in source order, each with the comma
\* consumed directly after it as separator, so that only the last can have
\* none; after a comma with no item following it raises `Trailing comma in
\* <listName>`, unless allowDangler is set: then it returns the items so far,
\* the last holding the dangling comma.
ListContract == outcome # None /\ outcome[1].fn = "list" => ListOutcome(outcome[1])

\* a list of two items with a dangling comma was parsed with allowDangler
ListContractWitness ==
  /\ outcome # None
  /\ outcome[1].fn = "list"
  /\ outcome[1].options.allowDangler
  /\ Len(outcome[1].items) = 2
  /\ outcome[1].items[2].separator # None

====
